---- MODULE Spec2Model ----
(***************************************************************************)
(* The Calculation Engine API client (calculation_engine_api.py) and the   *)
(* job helpers (utils.py) as one sequential program: a call stack of       *)
(* frames, the locals of the running call, and a trace of every effect the *)
(* program has on the outside (HTTP requests with the status received,     *)
(* sleeps, directory creations, file writes).  The server is the           *)
(* environment: every HTTP call draws its response from the set of         *)
(* responses the server may give.                                          *)
(***************************************************************************)
EXTENDS Integers, Sequences, FiniteSets, TLC

VARIABLES
    op,            \* the operation the caller invoked ("idle" before the call)
    stack,         \* call stack, innermost frame last: [fn, pc]
    uuid,          \* the id argument (uuid / job_id / username), "" when not given
    path,          \* the path argument of the download methods
    url,           \* local `url`
    response,      \* local `response`: the last response received
    acc,           \* local accumulator: jobs / uploads / metrics
    upload,        \* local `upload` of download_uploaded_file
    ret,           \* value returned by the call that returned last
    raised,        \* exception that escaped to the caller, "none" otherwise
    trace,         \* every outside effect so far, in order
    served,        \* server side: the pages sent with a non-429 status, in order
    job_status,    \* monitor_job local / download_successful_job argument
    idx,           \* loop position in job_delete_all / download_successful_job
    now,           \* wall clock, seconds
    start_time,    \* monitor_job local
    elapsed_time,  \* monitor_job local
    time_limit,    \* monitor_job argument
    sleep_interval,\* monitor_job argument
    name,          \* job_create: the parameter `name`, rebound when it is empty
    public,        \* the argument `public`
    description,   \* the argument `description`
    saved,         \* update_job argument
    data,          \* local `data` of upload_file_update / update_job
    sent           \* the payload of every request sent with one, in order

vars == <<op, stack, uuid, path, url, response, acc, upload, ret, raised, trace,
          served, job_status, idx, now, start_time, elapsed_time, time_limit,
          sleep_interval, name, public, description, saved, data, sent>>

argVars == <<op, uuid, path, time_limit, sleep_interval, public, description, saved>>
bodyVars == <<name, data, sent>>
clockVars == <<now, start_time, elapsed_time>>

-----------------------------------------------------------------------------
(* Bounds of the model *)

\* the server sends at most this many 429 responses during one operation
Max429 == 3
\* a paginated listing has at most this many pages
MaxPages == 2
\* a page holds at most this many results
MaxPerPage == 2
\* a job's file manifest has at most this many entries
MaxFiles == 2
\* nested calls the interpreter allows before it raises RecursionError
RecursionLimit == 3
\* monitor_job: largest time_limit tried
MaxTimeLimit == 2
\* monitor_job: largest sleep_interval tried
MaxSleepInterval == 2
\* longest time one job_list poll takes
MaxLatency == 1

-----------------------------------------------------------------------------
(* Configuration and values *)

rate_limit_status_code == 429
api_rate_limit == 2

url_base == "http://localhost:4000"
api_url_base == url_base \o "/" \o "api/v0"

\* Python's None, and the JSON null of a response body
NoneVal == "<None>"

Uuids == {"j1", "j2", "j3"}
Paths == {"/out/a.csv", "b.csv"}
FileSizes == {0, 7}
JobStatuses == {"PENDING", "RUNNING", "SUCCESS", "FAILURE"}
StatusCodes == {200, 404, 429}

\* `if x:` on a string or None
Truthy(x) == x # NoneVal /\ x # ""

\* `status_code in range(200, 300)`
InSuccessRange(code) == code >= 200 /\ code < 300

\* str.strip('/') on the paths of the model
StripSlash(p) ==
    CASE p = "/out/a.csv" -> "out/a.csv"
      [] p = "b.csv" -> "b.csv"
      [] OTHER -> p

RECURSIVE SeqsUpTo(_, _)
SeqsUpTo(S, n) ==
    IF n = 0 THEN {<<>>}
    ELSE LET shorter == SeqsUpTo(S, n - 1)
         IN  shorter \cup {Append(s, x) : s \in {t \in shorter : Len(t) = n - 1}, x \in S}

NoResponse == [status_code |-> 0, body |-> [kind |-> "none"]]

\* values a call returns
RetNone == [t |-> "none"]
RetResponse(r) == [t |-> "response", v |-> r]
RetJson(b) == [t |-> "json", v |-> b]
RetList(s) == [t |-> "list", v |-> s]

\* Python values handed in as arguments and sent in payloads: type and text
PyVal(t, v) == [t |-> t, v |-> v]
PyNone == PyVal("NoneType", "None")
PyBool(b) == PyVal("bool", IF b THEN "True" ELSE "False")
PyStr(x) == PyVal("str", x)
PyInt(n) == PyVal("int", ToString(n))

\* a dict: a function of its keys; d[key] = value
EmptyDict == <<>>
SetItem(d, key, value) ==
    [k \in DOMAIN d \cup {key} |-> IF k = key THEN value ELSE d[k]]

-----------------------------------------------------------------------------
(* The trace of effects *)

HttpEvent(verb, u, code) ==
    [ev |-> "http", verb |-> verb, url |-> u, code |-> code, dur |-> <<0, 1>>]
\* time.sleep(num / den)
SleepEvent(num, den) ==
    [ev |-> "sleep", verb |-> "", url |-> "", code |-> 0, dur |-> <<num, den>>]
MakedirsEvent(dir) ==
    [ev |-> "makedirs", verb |-> "", url |-> dir, code |-> 0, dur |-> <<0, 1>>]
WriteEvent(file) ==
    [ev |-> "write", verb |-> "", url |-> file, code |-> 0, dur |-> <<0, 1>>]
\* a call of api.<fn> made by a helper of utils.py, with its path argument
CallEvent(fn, p) ==
    [ev |-> "call", verb |-> fn, url |-> p, code |-> 0, dur |-> <<0, 1>>]

IsHttp(e) == e.ev = "http"
IsSleep(e) == e.ev = "sleep"
Is429(e) == e.ev = "http" /\ e.code = rate_limit_status_code
IsAnswered(e) == e.ev = "http" /\ e.code # rate_limit_status_code
Count429 == Len(SelectSeq(trace, Is429))

-----------------------------------------------------------------------------
(* The server *)

\* bodies of a response that is not a success
ErrorBodies == {[kind |-> "detail"], [kind |-> "text"], [kind |-> "empty"]}

\* the URL of page k of a listing
PageUrl(base, k) == base \o "?page=" \o ToString(k)

\* the items on the pages the server has sent
ServedItems == UNION {{pg.results[i] : i \in 1..Len(pg.results)} :
                        pg \in {served[k] : k \in 1..Len(served)}}

\* sequences that list no item twice
Injective(s) == \A i, j \in 1..Len(s) : s[i] = s[j] => i = j

\* one page of a listing, the n-th the server sends: `results` and `next`;
\* the server lists every item once
PageBodies(base, n) ==
    {[kind |-> "page", results |-> rs, next |-> nx] :
        rs \in {q \in SeqsUpTo(Uuids \ ServedItems, MaxPerPage) : Injective(q)},
        nx \in {NoneVal, ""} \cup (IF n < MaxPages THEN {PageUrl(base, n + 1)} ELSE {})}

JobBodies(id) ==
    {[kind |-> "job", uuid |-> id, status |-> s] : s \in JobStatuses}

UploadBodies(id) ==
    {[kind |-> "upload", uuid |-> id, path |-> p] : p \in Paths}
    \cup {[kind |-> "upload", uuid |-> id]}

ObjectBodies == {[kind |-> "object"], [kind |-> "text"]}

\* what the server may answer: 429 while its budget lasts, an error, or a
\* success carrying one of `bodies`
Responses(bodies) ==
    {[status_code |-> c, body |-> b] :
        c \in {200}, b \in bodies}
    \cup {[status_code |-> c, body |-> b] :
        c \in StatusCodes \ {200, rate_limit_status_code}, b \in ErrorBodies}
    \cup {[status_code |-> c, body |-> [kind |-> "detail"]] :
        c \in IF Count429 < Max429 THEN {rate_limit_status_code} ELSE {}}

\* the server's record of the pages it has sent
Serve(r) ==
    IF r.body.kind = "page" THEN Append(served, r.body) ELSE served

-----------------------------------------------------------------------------
(* Response handling of the client *)

\* response.json(): the parsed body, or the exception it raises
JsonRaises(r) == r.body.kind \in {"text", "empty"}

\* d[key] on a parsed body
HasKey(b, key) == key \in DOMAIN b

\* mutant: a 429 is not recognised
RateLimiterMisses(r) == FALSE

\* mutant: the sleep is not conditional on the status
RateLimiterEffectsAlways(r) == <<SleepEvent(1, api_rate_limit)>>

\* rate_limiter: TRUE on 429, after sleeping 1 / api_rate_limit seconds
rate_limiter(r) == r.status_code = rate_limit_status_code
RateLimiterEffects(r) ==
    IF r.status_code = rate_limit_status_code
    THEN <<SleepEvent(1, api_rate_limit)>>
    ELSE <<>>

\* display_response(response, parse_json)
display_response(r, parse_json) ==
    IF InSuccessRange(r.status_code)
    THEN IF parse_json
         THEN IF JsonRaises(r) THEN RetResponse(r) ELSE RetJson(r.body)
         ELSE RetResponse(r)
    ELSE RetResponse(r)

\* response.raise_for_status()
RaiseForStatusRaises(r) == r.status_code >= 400 /\ r.status_code < 600

-----------------------------------------------------------------------------
(* The call stack *)

Frame(fn, pc) == [fn |-> fn, pc |-> pc]
Top == stack[Len(stack)]
At(fn, pc) == stack # <<>> /\ Top.fn = fn /\ Top.pc = pc
AtAny(fns, pc) == stack # <<>> /\ Top.fn \in fns /\ Top.pc = pc
Pop == SubSeq(stack, 1, Len(stack) - 1)
Goto(pc) == [stack EXCEPT ![Len(stack)].pc = pc]

\* the running call returns v
Return(v) ==
    /\ stack' = Pop
    /\ ret' = v

\* mutant: no handler takes the exception
RaiseUncaught(e) ==
    /\ stack' = <<>>
    /\ raised' = e

\* an exception leaves the running call: monitor_job's handler takes it,
\* otherwise it reaches the caller of the operation
Raise(e) ==
    IF \E i \in 1..Len(stack) : stack[i].fn = "monitor_job"
    THEN /\ stack' = <<Frame("monitor_job", "except")>>
         /\ raised' = raised
    ELSE /\ stack' = <<>>
         /\ raised' = e

\* the running call makes a nested call of fn and resumes at `back`; the
\* interpreter refuses the call with RecursionError at its depth limit
Call(fn, back) ==
    IF Len(stack) >= RecursionLimit
    THEN Raise("RecursionError")
    ELSE /\ stack' = Append(Goto(back), Frame(fn, "start"))
         /\ raised' = raised

Done == op # "idle" /\ stack = <<>>

-----------------------------------------------------------------------------
(* One HTTP call: the request goes out, the server answers *)

\* requests.<verb>(u) followed by rate_limiter(response)
Exchange(verb, u, r) ==
    /\ response' = r
    /\ trace' = trace \o <<HttpEvent(verb, u, r.status_code)>> \o RateLimiterEffects(r)
    /\ served' = Serve(r)

\* requests.<verb>(u) with no rate_limiter after it
ExchangePlain(verb, u, r) ==
    /\ response' = r
    /\ trace' = Append(trace, HttpEvent(verb, u, r.status_code))
    /\ served' = Serve(r)

-----------------------------------------------------------------------------
(* The methods that are one retry loop and display_response *)

SimpleMethods ==
    {"job_create", "job_delete", "upload_file", "upload_file_update",
     "delete_uploaded_file", "update_job", "list_modules", "list_users",
     "delete_user", "create_user", "upload_dataframe"}

\* the methods that take an id
IdMethods ==
    {"job_delete", "upload_file_update", "delete_uploaded_file", "update_job",
     "delete_user"}

MethodVerb(fn) ==
    CASE fn \in {"job_create", "create_user"} -> "POST"
      [] fn \in {"job_delete", "delete_uploaded_file", "delete_user"} -> "DELETE"
      [] fn \in {"upload_file", "upload_dataframe"} -> "PUT"
      [] fn \in {"upload_file_update", "update_job"} -> "PATCH"
      [] fn \in {"list_modules", "list_users"} -> "GET"

MethodUrl(fn, id) ==
    CASE fn = "job_create" -> api_url_base \o "/ce/job/"
      [] fn \in {"job_delete", "update_job"} -> api_url_base \o "/ce/job/" \o id \o "/"
      [] fn \in {"upload_file", "upload_dataframe"} -> api_url_base \o "/ce/upload/"
      [] fn \in {"upload_file_update", "delete_uploaded_file"} ->
            api_url_base \o "/ce/upload/" \o id \o "/"
      [] fn = "list_modules" -> api_url_base \o "/ce/module/"
      [] fn \in {"list_users", "create_user"} -> api_url_base \o "/user/"
      [] fn = "delete_user" -> api_url_base \o "/user/" \o id \o "/"

\* the parse_json the method hands to display_response
MethodParseJson(fn) == fn \notin {"job_delete", "delete_uploaded_file"}

\* mutant: the upper end is included, as with random.randint
RandrangeInclusive(a, b) == {a, (a + b) \div 2, b}

\* the draws of random.randrange(a, b) the model tries: both ends of the
\* range a <= n < b and one in between
randrange(a, b) == {a, (a + b) \div 2, b - 1}

\* job_create: `if not name: name = f'test-{random.randrange(10000, 99999)}'`
GeneratedNames == {"test-" \o ToString(n) : n \in randrange(10000, 99999)}
NameSent(n) == IF Truthy(n) THEN {n} ELSE GeneratedNames

\* the optional parameters of upload_file_update and update_job, in the order
\* the method looks at them, each with the type its assert demands
OptionalParams(fn) ==
    CASE fn = "upload_file_update" ->
            <<[key |-> "public", value |-> public, type |-> "bool"],
              [key |-> "description", value |-> description, type |-> "str"]>>
      [] fn = "update_job" ->
            <<[key |-> "saved", value |-> saved, type |-> "bool"],
              [key |-> "public", value |-> public, type |-> "bool"]>>
      [] OTHER -> <<>>

\* mutant: `if public:` in place of `if public is not None:`
IsSetTruthy(value) == value \notin {PyNone, PyBool(FALSE), PyStr("")}

\* `if <parameter> is not None`
IsSet(value) == value # PyNone

RECURSIVE BuildData(_, _)
\* data = {}; for each parameter that is set: assert isinstance(...), then
\* data[key] = value. A failed assert raises AssertionError.
BuildData(params, d) ==
    IF params = <<>> THEN [raises |-> FALSE, data |-> d]
    ELSE LET p == Head(params)
         IN  IF ~IsSet(p.value) THEN BuildData(Tail(params), d)
             ELSE IF p.value.t # p.type THEN [raises |-> TRUE, data |-> d]
             ELSE BuildData(Tail(params), SetItem(d, p.key, p.value))

\* what precedes the retry loop: job_create settles the name, upload_file_update
\* and update_job build `data`; the other methods go straight to the loop
SimpleStart ==
    /\ AtAny(SimpleMethods, "start")
    /\ LET built == BuildData(OptionalParams(Top.fn), EmptyDict)
       IN  IF built.raises
           THEN Raise("AssertionError") /\ UNCHANGED <<name, data>>
           ELSE /\ name' \in IF Top.fn = "job_create" THEN NameSent(name) ELSE {name}
                /\ data' = built.data
                /\ stack' = Goto("request")
                /\ raised' = raised
    /\ UNCHANGED <<argVars, clockVars, sent, url, response, acc, upload, ret, trace,
                   served, job_status, idx>>

\* the methods whose request carries a payload (json= or data=)
BodyMethods ==
    {"job_create", "upload_file", "upload_file_update", "update_job", "create_user",
     "upload_dataframe"}

\* the payload of the request of fn: how it is encoded and its fields
RequestBody(fn) ==
    CASE fn = "job_create" ->
            [enc |-> "json",
             data |-> [name |-> PyStr(name), config |-> PyVal("dict", "{}"),
                       description |-> description]]
      [] fn \in {"upload_file", "upload_dataframe"} ->
            [enc |-> "multipart",
             data |-> [path |-> PyStr(path), description |-> description,
                       public |-> public]]
      [] fn = "upload_file_update" -> [enc |-> "form", data |-> data]
      [] fn = "update_job" -> [enc |-> "json", data |-> data]
      [] fn = "create_user" ->
            [enc |-> "json",
             data |-> [username |-> PyStr(uuid),
                       email |-> PyStr(uuid \o "@example.com"),
                       is_staff |-> PyBool(TRUE),
                       first_name |-> PyStr(uuid),
                       last_name |-> PyStr(uuid),
                       password |-> PyStr("password")]]

\* while True: response = requests.<verb>(...); if not rate_limiter(response): break
SimpleRequest ==
    /\ AtAny(SimpleMethods, "request")
    /\ \E r \in Responses(ObjectBodies) :
        /\ Exchange(MethodVerb(Top.fn), MethodUrl(Top.fn, uuid), r)
        /\ stack' = IF rate_limiter(r) THEN stack ELSE Goto("display")
    /\ sent' = IF Top.fn \in BodyMethods THEN Append(sent, RequestBody(Top.fn)) ELSE sent
    /\ UNCHANGED <<argVars, name, data, clockVars, url, acc, upload, ret, raised,
                   job_status, idx>>

\* return self.display_response(response, parse_json)
SimpleReturn ==
    /\ AtAny(SimpleMethods, "display")
    /\ Return(display_response(response, MethodParseJson(Top.fn)))
    /\ UNCHANGED <<argVars, bodyVars, clockVars, url, response, acc, upload, raised, trace,
                   served, job_status, idx>>

-----------------------------------------------------------------------------
(* The calls with no retry loop *)

\* login: one POST, then display_response
login ==
    /\ At("login", "start")
    /\ \E r \in Responses(ObjectBodies) :
        /\ ExchangePlain("POST", url_base \o "/admin/login/", r)
        /\ Return(display_response(r, TRUE))
    /\ UNCHANGED <<argVars, bodyVars, clockVars, url, acc, upload, raised, job_status, idx>>

\* get_api_token: one POST, display_response, then data['token']
get_api_token ==
    /\ At("get_api_token", "start")
    /\ \E r \in Responses({[kind |-> "token", token |-> "t0"]}) :
        /\ ExchangePlain("POST", api_url_base \o "/token/", r)
        /\ LET parsed == display_response(r, TRUE)
           IN  IF parsed.t = "json" /\ HasKey(parsed.v, "token")
               THEN Return([t |-> "str", v |-> parsed.v.token]) /\ raised' = raised
               ELSE Raise(IF parsed.t = "json" THEN "KeyError" ELSE "TypeError")
                    /\ ret' = ret
    /\ sent' = Append(sent, [enc |-> "json",
                             data |-> [username |-> PyStr("admin"),
                                       password |-> PyStr("password")]])
    /\ UNCHANGED <<argVars, name, data, clockVars, url, acc, upload, job_status, idx>>

\* read_job_file_to_dataframe: one GET, raise_for_status, every error caught
read_job_file_to_dataframe ==
    /\ At("read_job_file_to_dataframe", "start")
    /\ \E r \in Responses({[kind |-> "text"]}) :
        /\ ExchangePlain("GET",
               url_base \o "/ce/download/" \o uuid \o "/" \o StripSlash(path), r)
        /\ Return(IF RaiseForStatusRaises(r) THEN RetNone ELSE RetJson([kind |-> "dataframe"]))
    /\ UNCHANGED <<argVars, bodyVars, clockVars, url, acc, upload, raised, job_status, idx>>

-----------------------------------------------------------------------------
(* job_list, upload_list, get_metrics *)

ListMethods == {"job_list", "upload_list"}
PagedMethods == {"job_list", "upload_list", "get_metrics"}

ListBase(fn) ==
    CASE fn = "job_list" -> api_url_base \o "/ce/job/"
      [] fn = "upload_list" -> api_url_base \o "/ce/upload/"
      [] fn = "get_metrics" -> api_url_base \o "/ce/metrics/"

\* the bodies the server sends with a success status for a GET of fn
ListBodies(fn, id) ==
    IF Truthy(id) /\ fn \in ListMethods
    THEN IF fn = "job_list" THEN JobBodies(id) ELSE UploadBodies(id)
    ELSE PageBodies(ListBase(fn), Len(served) + 1)

\* url = base; if uuid: url = base + uuid + '/'
ListUrl(fn, id) ==
    IF fn \in ListMethods /\ Truthy(id)
    THEN ListBase(fn) \o id \o "/"
    ELSE ListBase(fn)

\* jobs = []; url = ...
ListStart ==
    /\ AtAny(PagedMethods, "start")
    /\ acc' = <<>>
    /\ url' = ListUrl(Top.fn, uuid)
    /\ stack' = Goto(IF Top.fn \in ListMethods THEN "first" ELSE "loop")
    /\ UNCHANGED <<argVars, bodyVars, clockVars, response, upload, ret, raised, trace, served,
                   job_status, idx>>

\* the first request of job_list / upload_list, in its retry loop
ListFirstRequest ==
    /\ AtAny(ListMethods, "first")
    /\ \E r \in Responses(ListBodies(Top.fn, uuid)) :
        /\ Exchange("GET", url, r)
        /\ stack' = IF rate_limiter(r) THEN stack ELSE Goto("check")
    /\ UNCHANGED <<argVars, bodyVars, clockVars, url, acc, upload, ret, raised, job_status, idx>>

\* mutant: the return of the single object is missing, the body is read
\* as a page
ListFirstPageNoBypass(fn, id, r) ==
    IF ~InSuccessRange(r.status_code)
    THEN [returns |-> TRUE, value |-> RetResponse(r), jobs |-> acc, next |-> url]
    ELSE [returns |-> FALSE, value |-> ret,
          jobs |-> IF HasKey(r.body, "results") THEN r.body.results ELSE <<>>,
          next |-> IF HasKey(r.body, "next") THEN r.body.next ELSE NoneVal]

\* the status check, the single-object return, the first page
ListFirstPage(fn, id, r) ==
    IF ~InSuccessRange(r.status_code)
    THEN [returns |-> TRUE, value |-> RetResponse(r), jobs |-> acc, next |-> url]
    ELSE IF Truthy(id)
         THEN [returns |-> TRUE, value |-> RetJson(r.body), jobs |-> acc, next |-> url]
         ELSE [returns |-> FALSE, value |-> ret, jobs |-> r.body.results,
               next |-> r.body.next]

ListCheck ==
    /\ AtAny(ListMethods, "check")
    /\ LET step == ListFirstPage(Top.fn, uuid, response)
       IN  IF step.returns
           THEN Return(step.value) /\ UNCHANGED <<acc, url>>
           ELSE /\ acc' = step.jobs
                /\ url' = step.next
                /\ stack' = Goto("loop")
                /\ ret' = ret
    /\ UNCHANGED <<argVars, bodyVars, clockVars, response, upload, raised, trace, served,
                   job_status, idx>>

\* `while url:` is over: return the accumulator
ListReturn ==
    /\ AtAny(PagedMethods, "loop")
    /\ ~Truthy(url)
    /\ Return(RetList(acc))
    /\ UNCHANGED <<argVars, bodyVars, clockVars, url, response, acc, upload, raised, trace,
                   served, job_status, idx>>

\* `while url:` goes on: fetch url in the retry loop
ListNextRequest ==
    /\ AtAny(PagedMethods, "loop")
    /\ Truthy(url)
    /\ \E r \in Responses(ListBodies(Top.fn, "")) :
        /\ Exchange("GET", url, r)
        /\ stack' = IF rate_limiter(r) THEN stack ELSE Goto("parse")
    /\ UNCHANGED <<argVars, bodyVars, clockVars, url, acc, upload, ret, raised, job_status, idx>>

\* mutant: `=` in place of `+=`
AccumulateOverwrite(jobs, body) == body.results

\* jobs += response_data['results']
Accumulate(jobs, body) == jobs \o body.results

\* response_data = response.json(); jobs += results; url = next
ListParse ==
    /\ AtAny(PagedMethods, "parse")
    /\ IF JsonRaises(response)
       THEN Raise("JSONDecodeError") /\ UNCHANGED <<acc, url>>
       ELSE IF ~HasKey(response.body, "results")
            THEN Raise("KeyError") /\ UNCHANGED <<acc, url>>
            ELSE /\ acc' = Accumulate(acc, response.body)
                 /\ url' = response.body.next
                 /\ stack' = Goto("loop")
                 /\ raised' = raised
    /\ UNCHANGED <<argVars, bodyVars, clockVars, response, upload, ret, trace, served,
                   job_status, idx>>

-----------------------------------------------------------------------------
(* job_delete_all *)

\* all_jobs = self.job_list()
DeleteAllStart ==
    /\ At("job_delete_all", "start")
    /\ Call("job_list", "for")
    /\ idx' = 1
    /\ UNCHANGED <<argVars, bodyVars, clockVars, url, response, acc, upload, ret, trace, served,
                   job_status>>

\* what `for job in all_jobs` iterates over: the jobs of a list; the content
\* chunks of a Response, one when it has content, which are bytes
Iterated(all_jobs) ==
    CASE all_jobs.t = "list" -> all_jobs.v
      [] all_jobs.t = "response" ->
            IF all_jobs.v.body.kind = "empty" THEN <<>> ELSE <<"<bytes>">>
      [] OTHER -> <<>>

\* the for loop is over
DeleteAllReturn ==
    /\ At("job_delete_all", "for")
    /\ idx > Len(Iterated(ret))
    /\ Return(RetNone)
    /\ UNCHANGED <<argVars, bodyVars, clockVars, url, response, acc, upload, raised, trace,
                   served, job_status, idx>>

\* mutant: the DELETE is addressed to the first job on every pass
DeleteTargetFirst(jobs, i) == jobs[1]

\* the job the loop body addresses its DELETE to
DeleteTarget(jobs, i) == jobs[i]

\* mutant: bytes can be subscripted with a key
SubscriptRaisesNever(job) == FALSE

\* job['uuid'] raises TypeError when job is a chunk of bytes
SubscriptRaises(job) == job = "<bytes>"

\* one pass of the retry loop for the current job: job['uuid'], the DELETE,
\* rate_limiter; display_response and the next job after a non-429 answer
DeleteAllRequest ==
    /\ At("job_delete_all", "for")
    /\ idx <= Len(Iterated(ret))
    /\ IF SubscriptRaises(DeleteTarget(Iterated(ret), idx))
       THEN /\ Raise("TypeError")
            /\ UNCHANGED <<response, trace, served, idx>>
       ELSE /\ \E r \in Responses(ObjectBodies) :
                /\ Exchange("DELETE",
                       api_url_base \o "/ce/job/" \o DeleteTarget(Iterated(ret), idx)
                           \o "/", r)
                /\ idx' = IF rate_limiter(r) THEN idx ELSE idx + 1
            /\ UNCHANGED <<stack, raised>>
    /\ UNCHANGED <<argVars, bodyVars, clockVars, url, acc, upload, ret, job_status>>

-----------------------------------------------------------------------------
(* download_job_file, download_uploaded_file *)

JobsRoot == "/tmp/ce/jobs"
UploadsRoot == "/tmp/ce/uploads"

\* os.path.join(root_dir, uuid, path.strip('/'))
FilePath(root, id, p) == root \o "/" \o id \o "/" \o StripSlash(p)

\* the root_dir of the running download_job_file call
RootDir == IF op = "download_successful_job" THEN "./downloads/" ELSE JobsRoot

\* url, file_path, os.makedirs(os.path.dirname(file_path), exist_ok=True)
DownloadJobFileStart ==
    /\ At("download_job_file", "start")
    /\ url' = url_base \o "/ce/download/" \o uuid \o "/" \o StripSlash(path)
    /\ trace' = Append(trace, MakedirsEvent(FilePath(RootDir, uuid, path)))
    /\ stack' = Goto("get")
    /\ UNCHANGED <<argVars, bodyVars, clockVars, response, acc, upload, ret, raised, served,
                   job_status, idx>>

\* the streamed GET: on 429 the method calls itself; otherwise raise_for_status,
\* then the body is written to file_path
StreamedGet(fn, file) ==
    \E r \in Responses({[kind |-> "text"]}) :
        /\ response' = r
        /\ served' = served
        /\ IF rate_limiter(r)
           THEN /\ trace' = trace \o <<HttpEvent("GET", url, r.status_code)>>
                                  \o RateLimiterEffects(r)
                /\ Call(fn, "return")
                /\ ret' = ret
           ELSE IF RaiseForStatusRaises(r)
                THEN /\ trace' = Append(trace, HttpEvent("GET", url, r.status_code))
                     /\ Raise("HTTPError")
                     /\ ret' = ret
                ELSE /\ trace' = trace \o <<HttpEvent("GET", url, r.status_code),
                                            WriteEvent(file)>>
                     /\ Return(RetNone)
                     /\ raised' = raised

DownloadJobFileGet ==
    /\ At("download_job_file", "get")
    /\ StreamedGet("download_job_file", FilePath(RootDir, uuid, path))
    /\ UNCHANGED <<argVars, bodyVars, clockVars, url, acc, upload, job_status, idx>>

\* return self.download_...(...): the nested call's value is handed on
DownloadReturnNested ==
    /\ AtAny({"download_job_file", "download_uploaded_file"}, "return")
    /\ Return(ret)
    /\ UNCHANGED <<argVars, bodyVars, clockVars, url, response, acc, upload, raised, trace,
                   served, job_status, idx>>

\* upload = self.upload_list(uuid=uuid)
DownloadUploadedStart ==
    /\ At("download_uploaded_file", "start")
    /\ Call("upload_list", "lookup")
    /\ UNCHANGED <<argVars, bodyVars, clockVars, url, response, acc, upload, ret, trace, served,
                   job_status, idx>>

\* 'path' in upload: a key of the parsed record; on a Response, one of its
\* content chunks, which are bytes and never equal the str
PathIn(u) == u.t = "json" /\ HasKey(u.v, "path")

\* mutant: the directory is created before the lookup is checked
UploadLookupEffectsEager(u, id) == <<MakedirsEvent(UploadsRoot \o "/" \o id)>>

\* what the method does to the file system once the lookup is back: nothing
\* without a path, os.makedirs of the file's directory with one
UploadLookupEffects(u, id) ==
    IF ~PathIn(u) THEN <<>>
    ELSE <<MakedirsEvent(FilePath(UploadsRoot, id, u.v.path))>>

\* if 'path' not in upload: return; else url (the method's own, computed from
\* uuid alone), file_path and os.makedirs
DownloadUploadedLookup ==
    /\ At("download_uploaded_file", "lookup")
    /\ upload' = ret
    /\ IF ~PathIn(ret)
       THEN /\ Return(RetNone)
            /\ UNCHANGED url
       ELSE /\ url' = url_base \o "/ce/download/" \o uuid
            /\ stack' = Goto("get")
            /\ ret' = ret
    /\ trace' = trace \o UploadLookupEffects(ret, uuid)
    /\ UNCHANGED <<argVars, bodyVars, clockVars, response, acc, raised, served, job_status, idx>>

DownloadUploadedGet ==
    /\ At("download_uploaded_file", "get")
    /\ StreamedGet("download_uploaded_file", FilePath(UploadsRoot, uuid, upload.v.path))
    /\ UNCHANGED <<argVars, bodyVars, clockVars, url, acc, upload, job_status, idx>>

-----------------------------------------------------------------------------
(* utils.py: download_successful_job *)

\* the job_status dictionaries handed to download_successful_job
FileInfos == {[path |-> p, size |-> z] : p \in Paths, z \in FileSizes}
JobStatusInputs ==
    {[kind |-> "job", status |-> s, files |-> fs, error_info |-> "boom"] :
        s \in JobStatuses, fs \in SeqsUpTo(FileInfos, MaxFiles)}
    \cup {[kind |-> "job", status |-> s, files |-> fs] :
        s \in JobStatuses, fs \in SeqsUpTo(FileInfos, MaxFiles)}

\* mutant: `>=` in place of `>`
ShouldDownloadAny(file_info) == file_info.size >= 0

\* `if file_info['size'] > 0`
ShouldDownload(file_info) == file_info.size > 0

\* the branch on job_status['status']; on SUCCESS output_dir is created when
\* it does not exist
DownloadSuccessfulStart ==
    /\ At("download_successful_job", "start")
    /\ IF job_status.v.status = "SUCCESS"
       THEN /\ \E exists \in BOOLEAN :
                trace' = IF exists THEN trace
                         ELSE Append(trace, MakedirsEvent("./downloads/"))
            /\ stack' = Goto("files")
            /\ UNCHANGED <<ret, raised>>
       ELSE IF job_status.v.status = "FAILURE" /\ ~HasKey(job_status.v, "error_info")
            THEN Raise("KeyError") /\ UNCHANGED <<ret, trace>>
            ELSE Return(RetNone) /\ UNCHANGED <<raised, trace>>
    /\ idx' = 1
    /\ UNCHANGED <<argVars, bodyVars, clockVars, url, response, acc, upload, served, job_status>>

\* the manifest is exhausted
DownloadSuccessfulReturn ==
    /\ At("download_successful_job", "files")
    /\ idx > Len(job_status.v.files)
    /\ Return(RetNone)
    /\ UNCHANGED <<argVars, bodyVars, clockVars, url, response, acc, upload, raised, trace,
                   served, job_status, idx>>

\* one manifest entry: api.download_job_file(job_id, file_info['path'], ...)
\* when its size is positive
DownloadSuccessfulFile ==
    /\ At("download_successful_job", "files")
    /\ idx <= Len(job_status.v.files)
    /\ LET file_info == job_status.v.files[idx]
       IN  IF ShouldDownload(file_info)
           THEN /\ path' = file_info.path
                /\ trace' = Append(trace, CallEvent("download_job_file", file_info.path))
                /\ Call("download_job_file", "files")
           ELSE UNCHANGED <<path, trace, stack, raised>>
    /\ idx' = idx + 1
    /\ UNCHANGED <<op, uuid, time_limit, sleep_interval, public, description, saved,
                   bodyVars, clockVars, url, response, acc, upload, ret, served,
                   job_status>>

-----------------------------------------------------------------------------
(* utils.py: monitor_job *)

\* start_time = time.time()
MonitorStart ==
    /\ At("monitor_job", "start")
    /\ start_time' = now
    /\ stack' = Goto("poll")
    /\ UNCHANGED <<argVars, bodyVars, now, elapsed_time, url, response, acc, upload, ret, raised,
                   trace, served, job_status, idx>>

\* job_status = api.job_list(uuid=job_id)
MonitorPoll ==
    /\ At("monitor_job", "poll")
    /\ trace' = Append(trace, CallEvent("job_list", uuid))
    /\ Call("job_list", "polled")
    /\ UNCHANGED <<argVars, bodyVars, clockVars, url, response, acc, upload, ret, served,
                   job_status, idx>>

\* job_status['status'] in ['SUCCESS', 'FAILURE']
IsTerminal(status) == status \in {"SUCCESS", "FAILURE"}

\* mutant: exceeding the time limit is treated as an error
MonitorDecisionTimeoutRaises(status_obj, elapsed, limit) ==
    IF status_obj.t # "json" \/ ~HasKey(status_obj.v, "status") THEN "raise"
    ELSE IF status_obj.v.status \in {"SUCCESS", "FAILURE"} THEN "return"
    ELSE IF elapsed > limit THEN "raise"
    ELSE "sleep"

\* what the loop body does after the poll: "raise" (the status cannot be
\* read), "return" (break), or "sleep"
MonitorDecision(status_obj, elapsed, limit) ==
    IF status_obj.t # "json" \/ ~HasKey(status_obj.v, "status") THEN "raise"
    ELSE IF IsTerminal(status_obj.v.status) THEN "return"
    ELSE IF elapsed > limit THEN "return"
    ELSE "sleep"

\* elapsed_time = time.time() - start_time, then the checks; the poll took d
MonitorPolled ==
    /\ At("monitor_job", "polled")
    /\ job_status' = ret
    /\ \E d \in 0..MaxLatency :
        LET t == now + d
            decision == MonitorDecision(ret, t - start_time, time_limit)
        IN  /\ elapsed_time' = t - start_time
            /\ CASE decision = "raise" ->
                      /\ Raise("TypeError")
                      /\ now' = t
                      /\ UNCHANGED <<ret, trace>>
                 [] decision = "return" ->
                      /\ Return(ret)
                      /\ now' = t
                      /\ UNCHANGED <<raised, trace>>
                 [] decision = "sleep" ->
                      /\ trace' = Append(trace, SleepEvent(sleep_interval, 1))
                      /\ now' = t + sleep_interval
                      /\ stack' = Goto("poll")
                      /\ UNCHANGED <<ret, raised>>
    /\ UNCHANGED <<argVars, bodyVars, start_time, url, response, acc, upload, served, idx>>

\* except Exception: return None
MonitorExcept ==
    /\ At("monitor_job", "except")
    /\ Return(RetNone)
    /\ UNCHANGED <<argVars, bodyVars, clockVars, url, response, acc, upload, raised, trace,
                   served, job_status, idx>>

-----------------------------------------------------------------------------
(* The caller *)

TakesId(fn) ==
    fn \in IdMethods \cup {"read_job_file_to_dataframe", "download_job_file",
                           "download_uploaded_file", "download_successful_job",
                           "monitor_job", "create_user"}

\* the values a caller passes for `name`, `public` / `saved`, `description`
NameArgs == {"", NoneVal, "myjob"}
FlagArgs == {PyNone, PyBool(TRUE), PyBool(FALSE), PyInt(1)}
DescriptionArgs == {PyNone, PyStr(""), PyStr("notes"), PyInt(1)}

\* the arguments operation fn is called with; sleep_interval is positive, so
\* that the clock advances between two polls
Invocations(fn) ==
    {[fn |-> fn, uuid |-> id, path |-> p, job_status |-> js, time_limit |-> tl,
      sleep_interval |-> si, name |-> nm, public |-> pb, description |-> ds,
      saved |-> sv] :
        nm \in IF fn = "job_create" THEN NameArgs ELSE {""},
        pb \in IF fn \in {"upload_file_update", "update_job"} THEN FlagArgs
               ELSE IF fn \in {"upload_file", "upload_dataframe"} THEN {PyBool(FALSE)}
               ELSE {PyNone},
        ds \in IF fn = "upload_file_update" THEN DescriptionArgs
               ELSE IF fn \in {"job_create", "upload_file", "upload_dataframe"}
                    THEN {PyStr("")}
               ELSE {PyNone},
        sv \in IF fn = "update_job" THEN FlagArgs ELSE {PyNone},
        id \in IF TakesId(fn) THEN Uuids
               ELSE IF fn \in ListMethods THEN Uuids \cup {""} ELSE {""},
        p \in IF fn \in {"read_job_file_to_dataframe", "download_job_file"}
              THEN Paths ELSE {""},
        js \in IF fn = "download_successful_job"
               THEN {RetJson(b) : b \in JobStatusInputs} ELSE {RetNone},
        tl \in IF fn = "monitor_job" THEN 0..MaxTimeLimit ELSE {0},
        si \in IF fn = "monitor_job" THEN 1..MaxSleepInterval ELSE {0}}

\* the caller invokes one of fns
InvokeOf(fns) ==
    /\ op = "idle"
    /\ \E fn \in fns : \E c \in Invocations(fn) :
        /\ op' = c.fn
        /\ uuid' = c.uuid
        /\ path' = c.path
        /\ job_status' = c.job_status
        /\ time_limit' = c.time_limit
        /\ sleep_interval' = c.sleep_interval
        /\ name' = c.name
        /\ public' = c.public
        /\ description' = c.description
        /\ saved' = c.saved
        /\ stack' = <<Frame(c.fn, "start")>>
    /\ UNCHANGED <<clockVars, data, sent, url, response, acc, upload, ret, raised, trace,
                   served, idx>>

RequestMethods == SimpleMethods \cup {"login", "get_api_token", "read_job_file_to_dataframe"}
DownloadMethods == {"download_job_file", "download_uploaded_file", "download_successful_job"}

InvokeRequest == InvokeOf(RequestMethods)
InvokeList == InvokeOf(PagedMethods)
InvokeDeleteAll == InvokeOf({"job_delete_all"})
InvokeDownload == InvokeOf(DownloadMethods)
InvokeMonitor == InvokeOf({"monitor_job"})

Init ==
    /\ op = "idle"
    /\ stack = <<>>
    /\ uuid = ""
    /\ path = ""
    /\ url = ""
    /\ response = NoResponse
    /\ acc = <<>>
    /\ upload = RetNone
    /\ ret = RetNone
    /\ raised = "none"
    /\ trace = <<>>
    /\ served = <<>>
    /\ job_status = RetNone
    /\ idx = 1
    /\ now = 0
    /\ start_time = 0
    /\ elapsed_time = 0
    /\ time_limit = 0
    /\ sleep_interval = 0
    /\ name = ""
    /\ public = PyNone
    /\ description = PyNone
    /\ saved = PyNone
    /\ data = EmptyDict
    /\ sent = <<>>

\* the methods that make one request, with or without the retry loop
NextRequest ==
    \/ InvokeRequest
    \/ SimpleStart
    \/ SimpleRequest
    \/ SimpleReturn
    \/ login
    \/ get_api_token
    \/ read_job_file_to_dataframe

\* job_list, upload_list, get_metrics
NextList ==
    \/ InvokeList
    \/ ListStart
    \/ ListFirstRequest
    \/ ListCheck
    \/ ListReturn
    \/ ListNextRequest
    \/ ListParse

\* job_delete_all, with the job_list it calls
NextDeleteAll ==
    \/ InvokeDeleteAll
    \/ DeleteAllStart
    \/ DeleteAllReturn
    \/ DeleteAllRequest
    \/ ListStart
    \/ ListFirstRequest
    \/ ListCheck
    \/ ListReturn
    \/ ListNextRequest
    \/ ListParse

\* the downloads, with the upload_list that download_uploaded_file calls
NextDownload ==
    \/ InvokeDownload
    \/ DownloadJobFileStart
    \/ DownloadJobFileGet
    \/ DownloadReturnNested
    \/ DownloadUploadedStart
    \/ DownloadUploadedLookup
    \/ DownloadUploadedGet
    \/ DownloadSuccessfulStart
    \/ DownloadSuccessfulReturn
    \/ DownloadSuccessfulFile
    \/ ListStart
    \/ ListFirstRequest
    \/ ListCheck

\* monitor_job, with the job_list it calls
NextMonitor ==
    \/ InvokeMonitor
    \/ MonitorStart
    \/ MonitorPoll
    \/ MonitorPolled
    \/ MonitorExcept
    \/ ListStart
    \/ ListFirstRequest
    \/ ListCheck

Next ==
    \/ NextRequest
    \/ NextList
    \/ NextDeleteAll
    \/ NextDownload
    \/ NextMonitor

Spec == Init /\ [][Next]_vars
SpecRequest == Init /\ [][NextRequest]_vars
SpecList == Init /\ [][NextList]_vars
SpecDeleteAll == Init /\ [][NextDeleteAll]_vars
SpecDownload == Init /\ [][NextDownload]_vars
SpecMonitor == Init /\ [][NextMonitor]_vars

-----------------------------------------------------------------------------
(* Properties *)

HttpEvents == SelectSeq(trace, IsHttp)
AnsweredEvents == SelectSeq(trace, IsAnswered)

RECURSIVE Flatten(_)
\* the concatenation, in order, of the pages' `results`
Flatten(pages) ==
    IF pages = <<>> THEN <<>>
    ELSE pages[1].results \o Flatten(Tail(pages))

\* a paginated listing: job_list() / upload_list() without an id, get_metrics()
Listing == op \in PagedMethods /\ ~(op \in ListMethods /\ Truthy(uuid))

\* every answer of the server so far was a success
AllAnswersSucceed ==
    \A k \in 1..Len(AnsweredEvents) : InSuccessRange(AnsweredEvents[k].code)

C2_RetryUntilSuccess ==
    (Done /\ op \in SimpleMethods /\ InSuccessRange(response.status_code)) =>
        LET n == Count429
        IN  /\ Len(trace) = 2 * n + 1
            /\ \A k \in 1..n :
                  /\ Is429(trace[2 * k - 1])
                  /\ trace[2 * k] = SleepEvent(1, api_rate_limit)
            /\ trace[2 * n + 1] =
                  HttpEvent(MethodVerb(op), MethodUrl(op, uuid), response.status_code)
            /\ \A k \in 1..Len(HttpEvents) :
                  /\ HttpEvents[k].verb = MethodVerb(op)
                  /\ HttpEvents[k].url = MethodUrl(op, uuid)
            /\ raised = "none"
            /\ ret \in {RetJson(response.body), RetResponse(response)}

C2_Witness ==
    /\ Done /\ op = "job_create"
    /\ Count429 = 2
    /\ ret.t = "json"

\* C3 (as claimed): every 429 is followed by a sleep and a resend, so that no
\* operation ends on a 429: none returns it, none raises or gives up on it.
C3_RateLimitAlwaysAbsorbed ==
    /\ \A k \in 1..Len(trace) :
          Is429(trace[k]) => k < Len(trace) /\ IsSleep(trace[k + 1])
    /\ Done /\ HttpEvents # <<>> => ~Is429(HttpEvents[Len(HttpEvents)])

\* C4 (as claimed): apart from the streaming downloads, an operation whose
\* last answer is an ordinary non-success status does not raise and returns
\* that response as it is.
C4_NonSuccessReturnedAsIs ==
    (/\ Done
     /\ op \notin DownloadMethods
     /\ ~InSuccessRange(response.status_code)
     /\ response.status_code # rate_limit_status_code) =>
        /\ raised = "none"
        /\ ret = RetResponse(response)

\* the DELETE requests of the trace, and those among them that were answered
IsDelete(e) == e.ev = "http" /\ e.verb = "DELETE"
IsAnsweredDelete(e) == IsDelete(e) /\ e.code # rate_limit_status_code
JobUrl(id) == api_url_base \o "/ce/job/" \o id \o "/"

\* every GET of the listing was answered with a success or a 429
AllListed ==
    \A k \in 1..Len(trace) :
        trace[k].verb = "GET" => InSuccessRange(trace[k].code) \/ Is429(trace[k])

\* job_delete_all has returned, and its listing gave it a list of jobs
DeletedAll == Done /\ op = "job_delete_all" /\ AllListed

\* C5 (as claimed): job_delete_all sends exactly one DELETE per listed job, to
\* that job's URL, in the order listed, and no other DELETE.
C5_OneDeletePerJob ==
    DeletedAll =>
        LET deletes == SelectSeq(trace, IsDelete)
        IN  /\ Len(deletes) = Len(acc)
            /\ \A k \in 1..Len(deletes) : deletes[k].url = JobUrl(acc[k])

\* C5 (amended): for each listed job, in the order listed, job_delete_all
\* sends DELETE to that job's URL until the answer is not 429: exactly one
\* DELETE per job is answered with a status other than 429, each DELETE
\* answered 429 is followed by a sleep and a DELETE of the same job, and no
\* DELETE goes to a job that is not in the list.
C5_OneAnsweredDeletePerJob ==
    DeletedAll =>
        LET deletes == SelectSeq(trace, IsDelete)
            answered == SelectSeq(trace, IsAnsweredDelete)
        IN  /\ Len(answered) = Len(acc)
            /\ \A k \in 1..Len(answered) : answered[k].url = JobUrl(acc[k])
            /\ \A k \in 1..Len(deletes) :
                  /\ \E i \in 1..Len(acc) : deletes[k].url = JobUrl(acc[i])
                  /\ Is429(deletes[k]) =>
                        k < Len(deletes) /\ deletes[k + 1].url = deletes[k].url
            /\ \A k \in 1..Len(trace) :
                  IsDelete(trace[k]) /\ Is429(trace[k]) =>
                      k < Len(trace) /\ trace[k + 1] = SleepEvent(1, api_rate_limit)

C5_Witness ==
    /\ DeletedAll
    /\ Len(acc) >= 3
    /\ acc[1] # acc[2]
    /\ Len(served) = 2
    /\ \E k \in 1..Len(trace) : IsDelete(trace[k]) /\ Is429(trace[k])

\* the upload lookup gave no record with a `path`
LacksPath(u) == u.t # "json" \/ "path" \notin DOMAIN u.v

\* C6: in download_uploaded_file, when the lookup comes back without a
\* `path`, the call returns None at once: no request, no directory, no file,
\* no exception.
C6_NoPathNoDownload ==
    /\ [][(At("download_uploaded_file", "lookup") /\ LacksPath(ret)) =>
            /\ trace' = trace
            /\ raised' = raised
            /\ raised = "none"
            /\ stack' = Pop
            /\ ret' = RetNone]_vars
    /\ [](Done /\ op = "download_uploaded_file" /\ LacksPath(upload) =>
            /\ raised = "none"
            /\ ret = RetNone
            /\ trace[Len(trace)].ev = "http"
            /\ trace[Len(trace)].url = ListBase("upload_list") \o uuid \o "/"
            /\ ~Is429(trace[Len(trace)]))

C6_Witness ==
    /\ Done /\ op = "download_uploaded_file"
    /\ upload.t = "json" /\ LacksPath(upload)
    /\ Count429 >= 1
    /\ ret = RetNone

\* C7: a lookup by id sends GET to the object's URL only, once plus once per
\* 429 received, and returns the object of the response body, not a list.
C7_SingleLookupOneGet ==
    (Done /\ op \in ListMethods /\ Truthy(uuid)) =>
        /\ Len(HttpEvents) = Count429 + 1
        /\ \A k \in 1..Len(HttpEvents) :
              /\ HttpEvents[k].verb = "GET"
              /\ HttpEvents[k].url = ListBase(op) \o uuid \o "/"
        /\ raised = "none"
        /\ InSuccessRange(response.status_code) =>
              /\ ret = RetJson(response.body)
              /\ response.body.uuid = uuid

C7_Witness ==
    /\ Done /\ op = "upload_list" /\ uuid = "j2"
    /\ Count429 = 1
    /\ ret.t = "json"
    /\ ret.v.kind = "upload"

\* C8: when monitor_job stops on a poll that, like every poll before it,
\* fetched a job whose status is neither SUCCESS nor FAILURE, the time budget
\* is exceeded and the function returns that last fetched status object: not
\* None, and nothing is raised.
C8_TimeoutReturnsLastStatus ==
    (/\ Done /\ op = "monitor_job"
     /\ job_status.t = "json"
     /\ job_status.v.status \notin {"SUCCESS", "FAILURE"}) =>
        /\ ret = job_status
        /\ ret = RetJson(response.body)
        /\ ret # RetNone
        /\ raised = "none"
        /\ elapsed_time > time_limit

C8_Witness ==
    /\ Done /\ op = "monitor_job"
    /\ ret.t = "json"
    /\ ret.v.status = "RUNNING"
    /\ time_limit >= 1
    /\ Len(SelectSeq(trace, IsSleep)) >= 2
    /\ Count429 >= 1

\* the calls of api.download_job_file that download_successful_job made
IsDownloadCall(e) == e.ev = "call" /\ e.verb = "download_job_file"
RECURSIVE UrlsOf(_)
UrlsOf(events) ==
    IF events = <<>> THEN <<>> ELSE <<events[1].url>> \o UrlsOf(Tail(events))
DownloadCalls == UrlsOf(SelectSeq(trace, IsDownloadCall))

RECURSIVE PositiveSizePaths(_)
\* the paths of the manifest entries whose size is greater than zero, in order
PositiveSizePaths(files) ==
    IF files = <<>> THEN <<>>
    ELSE (IF files[1].size > 0 THEN <<files[1].path>> ELSE <<>>)
         \o PositiveSizePaths(Tail(files))

\* the downloads the claim expects for the job_status handed in
ExpectedDownloads ==
    IF job_status.v.status = "SUCCESS"
    THEN PositiveSizePaths(job_status.v.files)
    ELSE <<>>

\* C9 (as claimed): download_successful_job calls download_job_file exactly
\* once for each manifest entry of positive size, in manifest order, when the
\* status is SUCCESS, and makes no download call otherwise.
C9_DownloadsEveryNonEmptyFile ==
    (Done /\ op = "download_successful_job") => DownloadCalls = ExpectedDownloads

\* C9 (amended): the download calls are made in manifest order, once for each
\* entry of positive size and never for an entry of size zero, up to and
\* including the first call that raises; when no call raises every such entry
\* is downloaded; an exception of a download leaves download_successful_job
\* and the entries after it are not downloaded. No download call is made for
\* a status other than SUCCESS.
C9_DownloadsUntilOneRaises ==
    (op = "download_successful_job") =>
        /\ Len(DownloadCalls) <= Len(ExpectedDownloads)
        /\ DownloadCalls = SubSeq(ExpectedDownloads, 1, Len(DownloadCalls))
        /\ Done /\ (raised = "none" \/ job_status.v.status # "SUCCESS") =>
              DownloadCalls = ExpectedDownloads
        /\ Done /\ raised # "none" /\ job_status.v.status = "SUCCESS" =>
              DownloadCalls # <<>>

C9_Witness ==
    /\ Done /\ op = "download_successful_job" /\ raised = "none"
    /\ Len(job_status.v.files) = 2
    /\ job_status.v.files[1].size = 0
    /\ job_status.v.files[2].size > 0
    /\ Len(DownloadCalls) = 1
    /\ \E k \in 1..Len(trace) : trace[k].ev = "write"

\* C10 (as claimed): a method that retries on 429 ends only once the server
\* has answered with a status other than 429.
C10_EndsOnlyAfterNon429 ==
    (Done /\ op \in {"download_job_file", "download_uploaded_file"}) =>
        /\ HttpEvents # <<>>
        /\ ~Is429(HttpEvents[Len(HttpEvents)])

\* the optional parameters of the call and the values the caller gave them
OptionalArgs ==
    CASE op = "upload_file_update" -> [public |-> public, description |-> description]
      [] op = "update_job" -> [saved |-> saved, public |-> public]
      [] OTHER -> EmptyDict

\* the payload the claim expects: the parameters that are not None
ExpectedPayload ==
    [k \in {key \in DOMAIN OptionalArgs : OptionalArgs[key] # PyNone} |-> OptionalArgs[k]]

\* C11: every request of upload_file_update and update_job, resends included,
\* carries a payload whose keys are exactly the optional parameters the caller
\* gave a value other than None, each with the caller's value (False and ''
\* are sent); it is empty when none is set; a call that returns has sent it.
C11_PayloadIsTheSetParameters ==
    (op \in {"upload_file_update", "update_job"}) =>
        /\ Len(sent) = Len(HttpEvents)
        /\ \A k \in 1..Len(sent) :
              /\ DOMAIN sent[k].data = DOMAIN ExpectedPayload
              /\ sent[k].data = ExpectedPayload
              /\ sent[k].enc = IF op = "update_job" THEN "json" ELSE "form"
        /\ Done /\ raised = "none" => Len(sent) >= 1

C11_Witness ==
    /\ Done /\ op = "upload_file_update"
    /\ public = PyBool(TRUE) /\ description = PyNone
    /\ Len(sent) = 2
    /\ DOMAIN sent[2].data = {"public"}
    /\ ret.t = "json"

\* the names job_create may generate: test-XXXXX with 10000 <= XXXXX < 99999
TestNames == {"test-" \o ToString(n) : n \in 10000..99998}

\* C12: job_create called with an empty name settles, before its first
\* request, on a name test-XXXXX with 10000 <= XXXXX < 99999, and a name that
\* is not empty is kept; the name never changes afterwards, and every request
\* of the call, resends included, carries that name.
C12_GeneratedNameKept ==
    /\ [][(At("job_create", "start") /\ ~Truthy(name)) => name' \in TestNames]_vars
    /\ [][(At("job_create", "start") /\ Truthy(name)) => name' = name]_vars
    /\ [][(op = "job_create" /\ ~At("job_create", "start")) => name' = name]_vars
    /\ [](op = "job_create" =>
            /\ Len(sent) = Len(HttpEvents)
            /\ \A k \in 1..Len(sent) :
                  /\ sent[k].data.name = PyStr(name)
                  /\ DOMAIN sent[k].data = {"name", "config", "description"}
            /\ Done => Len(sent) >= 1 /\ Truthy(name))

C12_Witness ==
    /\ Done /\ op = "job_create"
    /\ name = "test-99998"
    /\ Count429 = 2
    /\ Len(sent) = 3
    /\ sent[1] = sent[3]

\* the response was a rate-limited one
Got429(r) == r.status_code = 429

\* the running call is at the point where it reads the response it holds
ReadsResponse == stack # <<>> /\ Top.fn \in PagedMethods /\ Top.pc \in {"check", "parse"}

\* the pages the listing has taken into its accumulator
PagesTaken ==
    IF ReadsResponse
    THEN SubSeq(served, 1, Len(served) - 1)
    ELSE served

\* C13: in a paginated listing a response with status 429, at the first page
\* or a later one, is never read and leaves the accumulator and the page URL as
\* they are; the request after it goes to the same URL; and as long as every
\* answer is a success the accumulator holds each page served so far exactly
\* once, in order, whatever the number of 429 responses in between.
C13_RateLimitedPageIsRefetched ==
    /\ [][(trace' # trace /\ Got429(response')) =>
            /\ acc' = acc
            /\ url' = url
            /\ stack' = stack
            /\ served' = served]_vars
    /\ [](Listing =>
            /\ ReadsResponse => ~Got429(response)
            /\ \A k \in 1..Len(HttpEvents) :
                  Is429(HttpEvents[k]) =>
                      IF k < Len(HttpEvents)
                      THEN HttpEvents[k + 1].url = HttpEvents[k].url
                      ELSE ~Done
            /\ (AllAnswersSucceed /\ ~At(op, "start")) => acc = Flatten(PagesTaken))

C13_Witness ==
    /\ Done /\ op = "upload_list" /\ uuid = ""
    /\ ret.t = "list" /\ Len(ret.v) = 3
    /\ Len(served) = 2
    /\ Len(HttpEvents) = 5
    /\ Is429(HttpEvents[1])
    /\ Is429(HttpEvents[3]) /\ Is429(HttpEvents[4])
    /\ HttpEvents[3].url = served[1].next

\* C14: once a GET of job_delete_all's listing was answered with a status that
\* is neither a success nor 429, job_delete_all sends no DELETE: it returns
\* None or ends with the exception of reading the failed response.
C14_FailedListingDeletesNothing ==
    (op = "job_delete_all" /\ ~AllListed) =>
        /\ SelectSeq(trace, IsDelete) = <<>>
        /\ Done /\ raised = "none" => ret = RetNone
        /\ raised \in {"none", "TypeError", "KeyError", "JSONDecodeError"}

C14_Witness ==
    /\ Done /\ op = "job_delete_all"
    /\ ret.t = "response"
    /\ ret.v.status_code = 404
    /\ ret.v.body.kind = "detail"
    /\ raised = "TypeError"
    /\ Count429 >= 1

\* the polls and the sleeps of monitor_job itself
IsPoll(e) == e.ev = "call" /\ e.verb = "job_list"
IsOwnSleep(e) == e.ev = "sleep" /\ e.dur = <<sleep_interval, 1>>
Polls == SelectSeq(trace, IsPoll)
OwnSleeps == SelectSeq(trace, IsOwnSleep)

\* the status object of the last poll can be read and is SUCCESS or FAILURE
ObservedTerminal(js) ==
    js.t = "json" /\ "status" \in DOMAIN js.v /\ js.v.status \in {"SUCCESS", "FAILURE"}

\* C15: monitor_job polls before anything else and at least once; a poll that
\* observes SUCCESS or FAILURE ends it with that status object, whatever the
\* elapsed time; it sleeps sleep_interval only right after a poll that fetched
\* a status neither SUCCESS nor FAILURE with elapsed_time <= time_limit, so that
\* when it ends it has polled once more than it has slept; and no exception
\* leaves it: when the poll cannot be read it returns None.
C15_PollingOrder ==
    /\ [][(op = "monitor_job" /\ Len(SelectSeq(trace', IsOwnSleep)) > Len(OwnSleeps)) =>
            /\ At("monitor_job", "polled")
            /\ ret.t = "json"
            /\ ret.v.status \notin {"SUCCESS", "FAILURE"}
            /\ elapsed_time' <= time_limit
            /\ Len(Polls) = Len(OwnSleeps) + 1]_vars
    /\ [](op = "monitor_job" =>
            /\ raised = "none"
            /\ trace # <<>> => IsPoll(trace[1])
            /\ Len(Polls) \in {Len(OwnSleeps), Len(OwnSleeps) + 1}
            /\ Done =>
                  /\ Len(Polls) >= 1
                  /\ Len(Polls) = Len(OwnSleeps) + 1
                  /\ ObservedTerminal(job_status) => ret = job_status
                  /\ (job_status.t # "json") => ret = RetNone)

C15_Witness ==
    /\ Done /\ op = "monitor_job"
    /\ ObservedTerminal(ret)
    /\ elapsed_time > time_limit
    /\ Len(OwnSleeps) = 1
    /\ Len(Polls) = 2
    /\ Count429 >= 1

====
